---------------------------- MODULE Spec2Model ----------------------------
(***************************************************************************)
(* A model of src/etl/feature_creation.py: the feature derivation of the   *)
(* NBA betting pipeline.                                                   *)
(*                                                                         *)
(*   FeatureCreationPreMerge._zscore_and_percentiles                      *)
(*   FeatureCreationPostMerge._calculate_days_since_last_game             *)
(*   FeatureCreationPostMerge._calculate_team_performance_metrics         *)
(*   FeatureCreationPostMerge._condense_538_features                      *)
(*                                                                         *)
(* A DataFrame is a sequence of records; the index label of a row of the   *)
(* input table is its position (a RangeIndex).  A float cell is an exact   *)
(* fraction <<numerator, denominator>> in lowest terms, and NaN / None is  *)
(* the empty tuple.                                                        *)
(***************************************************************************)
EXTENDS Integers, Sequences, FiniteSets

VARIABLES
    df,       \* the table handed to the method under study
    result,   \* the table the method returned (<<>> before it ran)
    pc        \* "input": the table is being assembled; "done": the method ran

vars == <<df, result, pc>>

---------------------------------------------------------------------------
(* Bounds of the model.                                                    *)

\* rows of a table of the season-run family (one pair of teams, one season)
MaxGames == 7
\* rows of a table of the mixed family (three teams, two seasons, any order)
MaxRows == 3
\* timestamps of the mixed family are 1..MaxTime, in half days
MaxTime == 3
\* the last timestamp of season 1 in the mixed family; later ones are season 2
SeasonEnd == 2
\* timestamps to a day: a timestamp counts half days
UnitsPerDay == 2
\* rows of a table of per-date statistics
MaxStats == 4
\* the dates of such a table are 1..MaxDate
MaxDate == 2
\* a statistic is null or one of 0..MaxValue
MaxValue == 1
\* rows of a table of 538 probabilities
MaxForecasts == 2

\* rolling(window=5, min_periods=1) of last_5_games_result
ResultWindow == 5
\* rolling(window=5) of avg_point_diff_last_5
PointDiffWindow == 5
\* min_periods=1 of last_5_games_result
MinPeriods == 1

---------------------------------------------------------------------------
(* Float cells.                                                            *)

NaN == <<>>

Abs(n) == IF n < 0 THEN -n ELSE n

RECURSIVE GCD(_, _)
GCD(a, b) == IF b = 0 THEN a ELSE GCD(b, a % b)

\* the float n / d, d > 0
Frac(n, d) ==
    LET g == GCD(Abs(n), d)
    IN  <<n \div g, d \div g>>

Num(n) == <<n, 1>>

IsNaN(x) == x = NaN

\* x - y on floats: NaN when either side is NaN
Minus(x, y) ==
    IF IsNaN(x) \/ IsNaN(y)
    THEN NaN
    ELSE Frac(x[1] * y[2] - y[1] * x[2], x[2] * y[2])

\* x + y on floats: NaN when either side is NaN
Plus(x, y) ==
    IF IsNaN(x) \/ IsNaN(y)
    THEN NaN
    ELSE Frac(x[1] * y[2] + y[1] * x[2], x[2] * y[2])

\* x < y on floats that are not NaN
Less(x, y) == x[1] * y[2] < y[1] * x[2]

---------------------------------------------------------------------------
(* The Series operations the methods use.  A Series is a sequence.         *)

\* the values of a Series given by a rule, each computed once
Series(s) == SubSeq(s, 1, Len(s))

RECURSIVE SumRange(_, _, _)
SumRange(s, lo, hi) == IF lo > hi THEN 0 ELSE s[hi] + SumRange(s, lo, hi - 1)

Max(a, b) == IF a > b THEN a ELSE b

\* s.rolling(window=w, min_periods=m).sum() on a Series of integers
RollingSum(s, w, m) ==
    Series([q \in 1..Len(s) |->
        IF q < m THEN NaN ELSE Num(SumRange(s, Max(1, q - w + 1), q))])

\* s.rolling(window=w).mean(): min_periods defaults to the window
RollingMean(s, w) ==
    Series([q \in 1..Len(s) |->
        IF q < w THEN NaN ELSE Frac(SumRange(s, q - w + 1, q), w)])

\* s.expanding().mean()
ExpandingMean(s) ==
    Series([q \in 1..Len(s) |-> Frac(SumRange(s, 1, q), q)])

\* s.shift(1)
Shift(s) ==
    Series([q \in 1..Len(s) |-> IF q = 1 THEN NaN ELSE s[q - 1]])

\* s.fillna(0)
FillNa(s) ==
    Series([q \in 1..Len(s) |-> IF IsNaN(s[q]) THEN Num(0) ELSE s[q]])

---------------------------------------------------------------------------
(* The game table: game_datetime, season, home_team, away_team,            *)
(* home_score, away_score (and the three 538 probabilities).               *)

Teams == {"A", "B", "C"}

Labels(t) == 1..Len(t)

\* (season, game_datetime) of row i sorts strictly before that of row j
KeyLess(t, i, j) ==
    \/ t[i].season < t[j].season
    \/ /\ t[i].season = t[j].season
       /\ t[i].game_datetime < t[j].game_datetime

\* labels `sorted` with label i put before the first label whose key is
\* greater: what a stable sort does with the rows in input order
RECURSIVE InsertLabel(_, _, _)
InsertLabel(t, sorted, i) ==
    IF sorted = <<>> THEN <<i>>
    ELSE IF KeyLess(t, i, Head(sorted))
         THEN <<i>> \o sorted
         ELSE <<Head(sorted)>> \o InsertLabel(t, Tail(sorted), i)

RECURSIVE SortUpTo(_, _)
SortUpTo(t, n) ==
    IF n = 0 THEN <<>> ELSE InsertLabel(t, SortUpTo(t, n - 1), n)

\* df.sort_values(["season", "game_datetime"]): the labels in sorted order
SortValues(t) == SortUpTo(t, Len(t))

\* s.unique(): the values of a Series in order of first appearance
RECURSIVE Unique(_)
Unique(s) ==
    IF s = <<>> THEN <<>>
    ELSE LET init == Unique(SubSeq(s, 1, Len(s) - 1))
             last == s[Len(s)]
         IN  IF \E k \in 1..Len(init) : init[k] = last
             THEN init
             ELSE Append(init, last)

\* position of label i in a sequence of labels that holds it once
PosOf(L, i) == CHOOSE p \in 1..Len(L) : L[p] = i

---------------------------------------------------------------------------
(* _calculate_team_performance_metrics, per team of a season.              *)

\* TeamGames with the mask taken on the whole table, not on season_df
TeamGamesOfAllSeasons(t, sorted, season, team) ==
    SelectSeq(sorted,
              LAMBDA i : t[i].home_team = team \/ t[i].away_team = team)

\* season_df[mask]: the labels of the team's games of the season, sorted
TeamGames(t, sorted, season, team) ==
    LET mask(i) == /\ t[i].season = season
                   /\ (t[i].home_team = team \/ t[i].away_team = team)
    IN  SelectSeq(sorted, mask)

is_win(row, team) ==
    \/ (row.home_team = team /\ row.home_score > row.away_score)
    \/ (row.away_team = team /\ row.away_score > row.home_score)

performance(row, team) == IF is_win(row, team) THEN 1 ELSE -1

\* point_diff as the home team sees it, whichever side the team is on
point_diff_of_home(row, team) == row.home_score - row.away_score

point_diff(row, team) ==
    IF row.home_team = team
    THEN row.home_score - row.away_score
    ELSE row.away_score - row.home_score

Sign(n) == IF n > 0 THEN 1 ELSE IF n < 0 THEN -1 ELSE 0

\* NextStreak without the test of the sign: every result is added
NextStreakUnsigned(current_streak, perf) == current_streak + perf

\* one turn of the loop over the team's rows: the streak after a game
NextStreak(current_streak, perf) ==
    IF current_streak = 0 THEN perf
    ELSE IF Sign(current_streak) = Sign(perf)
         THEN current_streak + perf
         ELSE perf

\* current_streak after the first n rows of the team
RECURSIVE StreakAfter(_, _)
StreakAfter(perf, n) ==
    IF n = 0 THEN 0 ELSE NextStreak(StreakAfter(perf, n - 1), perf[n])

\* the list `streaks`: the streak appended before each row updates it
Streaks(perf) == Series([q \in 1..Len(perf) |-> Num(StreakAfter(perf, q - 1))])

last_5_games_result(perf) ==
    FillNa(Shift(RollingSum(perf, ResultWindow, MinPeriods)))

\* win_pct without shift(1): the game itself is in the mean
win_pct_unshifted(perf) == ExpandingMean(perf)

win_pct(perf) == Shift(ExpandingMean(perf))

avg_point_diff(pd) == FillNa(Shift(ExpandingMean(pd)))

\* avg_point_diff_last_5 with min_periods=1, as last_5_games_result has
avg_point_diff_last_5_partial(pd) ==
    FillNa(Shift(Series([q \in 1..Len(pd) |->
        Frac(SumRange(pd, Max(1, q - PointDiffWindow + 1), q),
             q - Max(1, q - PointDiffWindow + 1) + 1)])))

avg_point_diff_last_5(pd) == FillNa(Shift(RollingMean(pd, PointDiffWindow)))

\* team_df with its five update_cols, as Series over the team's games
TeamMetrics(t, L, team) ==
    LET perf == Series([q \in 1..Len(L) |-> performance(t[L[q]], team)])
        pd   == Series([q \in 1..Len(L) |-> point_diff(t[L[q]], team)])
    IN  [ last_5_games_result   |-> last_5_games_result(perf),
          streak                |-> Streaks(perf),
          win_pct               |-> win_pct(perf),
          avg_point_diff        |-> avg_point_diff(pd),
          avg_point_diff_last_5 |-> avg_point_diff_last_5(pd) ]

\* the ten columns metrics_columns sets to NaN, and the two the first
\* write-back of last_5_games_result creates
BlankMetrics ==
    [ home_team_last_5                  |-> NaN,
      away_team_last_5                  |-> NaN,
      home_team_last_5_games_result     |-> NaN,
      away_team_last_5_games_result     |-> NaN,
      home_team_streak                  |-> NaN,
      away_team_streak                  |-> NaN,
      home_team_win_pct                 |-> NaN,
      away_team_win_pct                 |-> NaN,
      home_team_avg_point_diff          |-> NaN,
      away_team_avg_point_diff          |-> NaN,
      home_team_avg_point_diff_last_5   |-> NaN,
      away_team_avg_point_diff_last_5   |-> NaN ]

\* df.loc[mask & (df["home_team"] == team), "home_team_<col>"] = team_df[col]
\* for the five columns: the rows of the team's games where it is at home
\* take the value team_df holds under the same label
WriteHome(cols, t, L, M, team) ==
    Series([i \in DOMAIN cols |->
        IF (\E p \in 1..Len(L) : L[p] = i) /\ t[i].home_team = team
        THEN LET p == PosOf(L, i)
             IN  [cols[i] EXCEPT
                    !.home_team_last_5_games_result   = M.last_5_games_result[p],
                    !.home_team_streak                = M.streak[p],
                    !.home_team_win_pct               = M.win_pct[p],
                    !.home_team_avg_point_diff        = M.avg_point_diff[p],
                    !.home_team_avg_point_diff_last_5 = M.avg_point_diff_last_5[p]]
        ELSE cols[i]])

\* WriteAway with the row test of WriteHome: the away columns are written
\* on the rows where the team is at home
WriteAwayOnHomeRows(cols, t, L, M, team) ==
    Series([i \in DOMAIN cols |->
        IF (\E p \in 1..Len(L) : L[p] = i) /\ t[i].home_team = team
        THEN LET p == PosOf(L, i)
             IN  [cols[i] EXCEPT
                    !.away_team_last_5_games_result   = M.last_5_games_result[p],
                    !.away_team_streak                = M.streak[p],
                    !.away_team_win_pct               = M.win_pct[p],
                    !.away_team_avg_point_diff        = M.avg_point_diff[p],
                    !.away_team_avg_point_diff_last_5 = M.avg_point_diff_last_5[p]]
        ELSE cols[i]])

\* df.loc[mask & (df["away_team"] == team), "away_team_<col>"] = team_df[col]
WriteAway(cols, t, L, M, team) ==
    Series([i \in DOMAIN cols |->
        IF (\E p \in 1..Len(L) : L[p] = i) /\ t[i].away_team = team
        THEN LET p == PosOf(L, i)
             IN  [cols[i] EXCEPT
                    !.away_team_last_5_games_result   = M.last_5_games_result[p],
                    !.away_team_streak                = M.streak[p],
                    !.away_team_win_pct               = M.win_pct[p],
                    !.away_team_avg_point_diff        = M.avg_point_diff[p],
                    !.away_team_avg_point_diff_last_5 = M.avg_point_diff_last_5[p]]
        ELSE cols[i]])

\* the body of the loop over the teams of a season
UpdateTeam(cols, t, sorted, season, team) ==
    LET L == TeamGames(t, sorted, season, team)
        M == TeamMetrics(t, L, team)
    IN  WriteAway(WriteHome(cols, t, L, M, team), t, L, M, team)

\* pd.concat([season_df["home_team"], season_df["away_team"]]).unique()
SeasonTeams(t, sorted, season) ==
    LET S == SelectSeq(sorted, LAMBDA i : t[i].season = season)
    IN  Unique([k \in 1..Len(S) |-> t[S[k]].home_team]
               \o [k \in 1..Len(S) |-> t[S[k]].away_team])

RECURSIVE TeamLoop(_, _, _, _, _)
TeamLoop(cols, t, sorted, season, teams) ==
    IF teams = <<>> THEN cols
    ELSE TeamLoop(UpdateTeam(cols, t, sorted, season, Head(teams)),
                  t, sorted, season, Tail(teams))

RECURSIVE SeasonLoop(_, _, _, _)
SeasonLoop(cols, t, sorted, seasons) ==
    IF seasons = <<>> THEN cols
    ELSE SeasonLoop(TeamLoop(cols, t, sorted, Head(seasons),
                             SeasonTeams(t, sorted, Head(seasons))),
                    t, sorted, Tail(seasons))

\* the five "home view" columns of a row
HomeView(c) ==
    [ last_5_hv            |-> Minus(c.home_team_last_5_games_result,
                                     c.away_team_last_5_games_result),
      streak_hv            |-> Minus(c.home_team_streak, c.away_team_streak),
      win_pct_hv           |-> Minus(c.home_team_win_pct, c.away_team_win_pct),
      point_diff_hv        |-> Minus(c.home_team_avg_point_diff,
                                     c.away_team_avg_point_diff),
      point_diff_last_5_hv |-> Minus(c.home_team_avg_point_diff_last_5,
                                     c.away_team_avg_point_diff_last_5) ]

\* the returned table: the rows in sorted order, each with its label, its
\* input columns (game), its metric columns (cols) and its hv columns
calculate_team_performance_metrics(t) ==
    LET sorted  == SortValues(t)
        seasons == Unique([k \in 1..Len(sorted) |-> t[sorted[k]].season])
        cols    == SeasonLoop([i \in Labels(t) |-> BlankMetrics],
                              t, sorted, seasons)
    IN  Series([k \in 1..Len(sorted) |->
            LET c == cols[sorted[k]]
            IN  [ label |-> sorted[k],
                  game  |-> t[sorted[k]],
                  cols  |-> c,
                  hv    |-> HomeView(c) ]])

---------------------------------------------------------------------------
(* _calculate_days_since_last_game.                                        *)

\* the order of the team names
TeamRank(team) == CASE team = "A" -> 1 [] team = "B" -> 2 [] team = "C" -> 3

\* df[["game_datetime", "season", "home_team"]] with home_team renamed team
\* (role "home"), or the same of away_team; a row keeps its label
Projection(t, role) ==
    Series([i \in Labels(t) |->
        [ label         |-> i,
          game_datetime |-> t[i].game_datetime,
          season        |-> t[i].season,
          team          |-> IF role = "home" THEN t[i].home_team
                                             ELSE t[i].away_team ]])

\* (team, game_datetime) of entry x sorts strictly before that of entry y
EntryLess(x, y) ==
    \/ TeamRank(x.team) < TeamRank(y.team)
    \/ /\ x.team = y.team
       /\ x.game_datetime < y.game_datetime

RECURSIVE InsertEntry(_, _)
InsertEntry(sorted, x) ==
    IF sorted = <<>> THEN <<x>>
    ELSE IF EntryLess(x, Head(sorted))
         THEN <<x>> \o sorted
         ELSE <<Head(sorted)>> \o InsertEntry(Tail(sorted), x)

\* all_games_df.sort_values(["team", "game_datetime"]): a stable sort
RECURSIVE SortEntries(_, _)
SortEntries(s, n) ==
    IF n = 0 THEN <<>> ELSE InsertEntry(SortEntries(s, n - 1), s[n])

\* season_df.groupby("team")["game_datetime"].diff().dt.days on the entries
\* of one season: the whole days since the entry of the same team just
\* above, NaN for the first entry of a team
DaysSince(season_df) ==
    Series([k \in 1..Len(season_df) |->
        LET earlier == {q \in 1..(k - 1) : season_df[q].team = season_df[k].team}
        IN  IF earlier = {} THEN
                [ label                |-> season_df[k].label,
                  game_datetime        |-> season_df[k].game_datetime,
                  season               |-> season_df[k].season,
                  team                 |-> season_df[k].team,
                  days_since_last_game |-> NaN ]
            ELSE
                LET prev == CHOOSE q \in earlier : \A q2 \in earlier : q2 <= q
                IN  [ label                |-> season_df[k].label,
                      game_datetime        |-> season_df[k].game_datetime,
                      season               |-> season_df[k].season,
                      team                 |-> season_df[k].team,
                      days_since_last_game |->
                          Num((season_df[k].game_datetime
                                 - season_df[prev].game_datetime)
                              \div UnitsPerDay) ]])

\* the loop over the seasons and pd.concat(df_list)
RECURSIVE RestLog(_, _)
RestLog(all_games, seasons) ==
    IF seasons = <<>> THEN <<>>
    ELSE DaysSince(SelectSeq(all_games,
                             LAMBDA e : e.season = Head(seasons)))
         \o RestLog(all_games, Tail(seasons))

\* the rows of df_result that match a row on (game_datetime, season, team)
Matches(df_result, dt, season, team) ==
    SelectSeq(df_result, LAMBDA e : /\ e.game_datetime = dt
                                    /\ e.season = season
                                    /\ e.team = team)

\* pd.merge(df, df_result, how="left", left_on=[..., "home_team"], ...):
\* each row of the left table once per matching row of df_result, in the
\* order of the left table, or once with NaN when none matches
RECURSIVE MergeHome(_, _, _)
MergeHome(t, df_result, i) ==
    IF i > Len(t) THEN <<>>
    ELSE LET m == Matches(df_result, t[i].game_datetime, t[i].season,
                          t[i].home_team)
             rows == IF m = <<>>
                     THEN << [ game |-> i, days_since_last_game_home |-> NaN ] >>
                     ELSE [k \in 1..Len(m) |->
                             [ game |-> i,
                               days_since_last_game_home |->
                                   m[k].days_since_last_game ]]
         IN  rows \o MergeHome(t, df_result, i + 1)

\* the second merge, on away_team, of the table the first merge returned
RECURSIVE MergeAway(_, _, _, _)
MergeAway(t, left, df_result, k) ==
    IF k > Len(left) THEN <<>>
    ELSE LET g == t[left[k].game]
             m == Matches(df_result, g.game_datetime, g.season, g.away_team)
             rows == IF m = <<>>
                     THEN << [ game |-> left[k].game,
                               days_since_last_game_home |->
                                   left[k].days_since_last_game_home,
                               days_since_last_game_away |-> NaN ] >>
                     ELSE [q \in 1..Len(m) |->
                             [ game |-> left[k].game,
                               days_since_last_game_home |->
                                   left[k].days_since_last_game_home,
                               days_since_last_game_away |->
                                   m[q].days_since_last_game ]]
         IN  rows \o MergeAway(t, left, df_result, k + 1)

\* the returned table; `game` is the label of the input row a row came
\* from, whose columns it carries
calculate_days_since_last_game(t) ==
    LET all_games_df == Projection(t, "home") \o Projection(t, "away")
        sorted       == SortEntries(all_games_df, Len(all_games_df))
        seasons      == Unique([k \in 1..Len(sorted) |-> sorted[k].season])
        df_result    == RestLog(sorted, seasons)
        merged       == MergeAway(t, MergeHome(t, df_result, 1), df_result, 1)
    IN  Series([k \in 1..Len(merged) |->
            [ game |-> merged[k].game,
              days_since_last_game_home |-> merged[k].days_since_last_game_home,
              days_since_last_game_away |-> merged[k].days_since_last_game_away,
              rest_diff_hv |-> Minus(merged[k].days_since_last_game_home,
                                     merged[k].days_since_last_game_away) ]])

---------------------------------------------------------------------------
(* _zscore_and_percentiles, for one feature column.  A row is a date and   *)
(* the value of the column.  The standard deviation is a square root, so   *)
(* the model keeps the variance, and a z-score cell holds z * |z|: null,   *)
(* zero and the sign of z are those of the code.                           *)

\* x / y on floats: 0 / 0 is NaN and x / 0 an infinity, <<1, 0>> or <<-1, 0>>
Over(x, y) ==
    IF IsNaN(x) \/ IsNaN(y) THEN NaN
    ELSE IF y[1] = 0
         THEN (IF x[1] = 0 THEN NaN ELSE <<Sign(x[1]), 0>>)
         ELSE Frac(Sign(y[1]) * x[1] * y[2], Abs(y[1]) * x[2])

\* x * |x|
SignedSquare(x) == IF IsNaN(x) THEN NaN ELSE Frac(x[1] * Abs(x[1]), x[2] * x[2])

\* the values of a group that are not null
NotNull(s) == SelectSeq(s, LAMBDA x : ~IsNaN(x))

RECURSIVE SumOf(_)
SumOf(s) == IF s = <<>> THEN Num(0) ELSE Plus(Head(s), SumOf(Tail(s)))

\* s.mean(): NaN for a group with no value
SeriesMean(s) ==
    LET v == NotNull(s)
    IN  IF v = <<>> THEN NaN ELSE Over(SumOf(v), Num(Len(v)))

\* s.std(ddof=ddof) squared: NaN when the group has no more than ddof values
SeriesVar(s, ddof) ==
    LET v    == NotNull(s)
        mean == SeriesMean(s)
        sq   == [q \in 1..Len(v) |->
                    LET d == Minus(v[q], mean)
                    IN  Frac(d[1] * d[1], d[2] * d[2])]
    IN  IF Len(v) <= ddof THEN NaN ELSE Over(SumOf(sq), Num(Len(v) - ddof))

\* safe_zscore that answers a group without variance with zeros
safe_zscore_zeros(s) ==
    LET mean == SeriesMean(s)
        var  == SeriesVar(s, 1)
    IN  IF var = Num(0)
        THEN Series([q \in 1..Len(s) |-> Num(0)])
        ELSE Series([q \in 1..Len(s) |->
                        Over(SignedSquare(Minus(s[q], mean)), var)])

\* safe_zscore(s, ddof=1) of the values of one date
safe_zscore(s) ==
    LET mean == SeriesMean(s)
        var  == SeriesVar(s, 1)
    IN  IF var = Num(0)
        THEN Series([q \in 1..Len(s) |-> NaN])
        ELSE Series([q \in 1..Len(s) |->
                        Over(SignedSquare(Minus(s[q], mean)), var)])

\* safe_percentile(s): s.rank(pct=True), the average rank of a value among
\* the values of the group over their number; NaN for a null
safe_percentile(s) ==
    LET v == NotNull(s)
    IN  Series([q \in 1..Len(s) |->
            IF IsNaN(s[q]) THEN NaN
            ELSE LET less  == Cardinality({k \in 1..Len(v) : Less(v[k], s[q])})
                     equal == Cardinality({k \in 1..Len(v) : v[k] = s[q]})
                 IN  Frac(2 * less + equal + 1, 2 * Len(v))])

\* df.groupby(date_col): the labels of the rows of the date of row i
GroupOf(t, i) ==
    SelectSeq([k \in Labels(t) |-> k], LAMBDA k : t[k].date = t[i].date)

\* df.groupby(date_col)[col]: the values of the group of row i
GroupValues(t, i) ==
    LET group == GroupOf(t, i)
    IN  Series([q \in 1..Len(group) |-> t[group[q]].value])

\* .transform(f).where(df[col].notnull()): the cell of row i in the answer
\* out of f for its group, null where the value is
Transformed(t, i, out) ==
    IF IsNaN(t[i].value) THEN NaN ELSE out[PosOf(GroupOf(t, i), i)]

zscore_and_percentiles(t) ==
    Series([i \in Labels(t) |->
        [ date       |-> t[i].date,
          value      |-> t[i].value,
          zscore     |-> Transformed(t, i, safe_zscore(GroupValues(t, i))),
          percentile |-> Transformed(t, i, safe_percentile(GroupValues(t, i))) ]])

---------------------------------------------------------------------------
(* _condense_538_features.  A row is its three probabilities.              *)

\* condense_row with carm_elo_prob1 taken before raptor_prob1
condense_row_carm_first(row) ==
    IF ~IsNaN(row.carm_elo_prob1) THEN row.carm_elo_prob1
    ELSE IF ~IsNaN(row.raptor_prob1) THEN row.raptor_prob1
    ELSE row.elo_prob1

\* the lambda applied to each row
condense_row(row) ==
    IF ~IsNaN(row.raptor_prob1) THEN row.raptor_prob1
    ELSE IF ~IsNaN(row.carm_elo_prob1) THEN row.carm_elo_prob1
    ELSE row.elo_prob1

condense_538_features(t) ==
    Series([i \in Labels(t) |->
        [ raptor_prob1   |-> t[i].raptor_prob1,
          carm_elo_prob1 |-> t[i].carm_elo_prob1,
          elo_prob1      |-> t[i].elo_prob1,
          prob1          |-> condense_row(t[i]) ]])

---------------------------------------------------------------------------
(* The tables a run is given, and the run.                                 *)

Game(dt, season, home, away, hs, as) ==
    [ game_datetime |-> dt, season |-> season,
      home_team |-> home, away_team |-> away,
      home_score |-> hs, away_score |-> as ]

\* final scores of a game: basketball has no draw
RunScores == {<<2, 0>>, <<0, 1>>}

Init ==
    /\ df = <<>>
    /\ result = <<>>
    /\ pc = "input"

\* one more game of a season of A against B, played after the others
AppendSeasonGame ==
    /\ pc = "input"
    /\ Len(df) < MaxGames
    /\ \E home \in {"A", "B"}, sc \in RunScores :
         df' = Append(df, Game(2 * (Len(df) + 1), 1, home,
                               IF home = "A" THEN "B" ELSE "A",
                               sc[1], sc[2]))
    /\ UNCHANGED <<result, pc>>

CalculateTeamPerformanceMetrics ==
    /\ pc = "input"
    /\ result' = calculate_team_performance_metrics(df)
    /\ pc' = "rollup"
    /\ UNCHANGED df

NextSeasonRun == AppendSeasonGame \/ CalculateTeamPerformanceMetrics

\* the season a timestamp falls in
SeasonOf(dt) == IF dt <= SeasonEnd THEN 1 ELSE 2

\* one more row of a table of any two of the teams at any time, in any
\* order; (game_datetime, season, home_team, away_team) identifies a game
AppendGame ==
    /\ pc = "input"
    /\ Len(df) < MaxRows
    /\ \E dt \in 1..MaxTime, home \in Teams, sc \in RunScores :
         \E away \in Teams \ {home} :
            /\ ~\E i \in Labels(df) : /\ df[i].game_datetime = dt
                                      /\ df[i].home_team = home
                                      /\ df[i].away_team = away
            /\ df' = Append(df, Game(dt, SeasonOf(dt), home, away, sc[1], sc[2]))
    /\ UNCHANGED <<result, pc>>

NextRollup == AppendGame \/ CalculateTeamPerformanceMetrics

CalculateDaysSinceLastGame ==
    /\ pc = "input"
    /\ result' = calculate_days_since_last_game(df)
    /\ pc' = "rest"
    /\ UNCHANGED df

NextRestDays == AppendGame \/ CalculateDaysSinceLastGame

SpecRestDays == Init /\ [][NextRestDays]_vars

\* the values a statistic takes
StatValues == {NaN} \cup {Num(v) : v \in 0..MaxValue}

\* one more row of a table of statistics
AppendStat ==
    /\ pc = "input"
    /\ Len(df) < MaxStats
    /\ \E date \in 1..MaxDate, value \in StatValues :
         df' = Append(df, [date |-> date, value |-> value])
    /\ UNCHANGED <<result, pc>>

ZscoreAndPercentiles ==
    /\ pc = "input"
    /\ result' = zscore_and_percentiles(df)
    /\ pc' = "zscore"
    /\ UNCHANGED df

NextNormalize == AppendStat \/ ZscoreAndPercentiles

SpecNormalize == Init /\ [][NextNormalize]_vars

\* the values a probability takes: null, 0.55, 0.62, 0.70
Probabilities == {NaN, Frac(55, 100), Frac(62, 100), Frac(70, 100)}

\* one more row of a table of forecasts
AppendForecast ==
    /\ pc = "input"
    /\ Len(df) < MaxForecasts
    /\ \E raptor \in Probabilities, carm \in Probabilities,
          elo \in Probabilities :
         df' = Append(df, [ raptor_prob1 |-> raptor, carm_elo_prob1 |-> carm,
                            elo_prob1 |-> elo ])
    /\ UNCHANGED <<result, pc>>

Condense538Features ==
    /\ pc = "input"
    /\ result' = condense_538_features(df)
    /\ pc' = "condense"
    /\ UNCHANGED df

NextCondense == AppendForecast \/ Condense538Features

SpecCondense == Init /\ [][NextCondense]_vars

SpecRollup == Init /\ [][NextRollup]_vars

SpecSeasonRun == Init /\ [][NextSeasonRun]_vars

---------------------------------------------------------------------------
(* What the properties speak of, said from the input table alone: a        *)
(* team's games of a season in the order they were played.  Games of one   *)
(* instant are taken in the order of their rows, as the sort leaves them.  *)

Plays(row, team) == row.home_team = team \/ row.away_team = team

Roles == {"home", "away"}

TeamOf(row, role) == IF role = "home" THEN row.home_team ELSE row.away_team

RoleOf(row, team) == IF row.home_team = team THEN "home" ELSE "away"

\* row j comes before row g
Before(t, j, g) ==
    \/ t[j].game_datetime < t[g].game_datetime
    \/ (t[j].game_datetime = t[g].game_datetime /\ j < g)

SeasonsOf(t) == {t[i].season : i \in Labels(t)}

\* the labels of the team's games of the season, oldest first
Chronicle(t, season, team) ==
    LET P == {j \in Labels(t) : t[j].season = season /\ Plays(t[j], team)}
    IN  Series([r \in 1..Cardinality(P) |->
            CHOOSE j \in P : Cardinality({i \in P : Before(t, i, j)}) = r - 1])

OwnScore(row, team) ==
    IF row.home_team = team THEN row.home_score ELSE row.away_score

OppScore(row, team) ==
    IF row.home_team = team THEN row.away_score ELSE row.home_score

\* +1 for a win, -1 for a loss
Outcome(row, team) ==
    IF OwnScore(row, team) > OppScore(row, team) THEN 1 ELSE -1

Margin(row, team) == OwnScore(row, team) - OppScore(row, team)

\* the outcomes and the margins of the team's games, in the order of ch
Outcomes(t, ch, team) ==
    Series([q \in 1..Len(ch) |-> Outcome(t[ch[q]], team)])

Margins(t, ch, team) ==
    Series([q \in 1..Len(ch) |-> Margin(t[ch[q]], team)])

\* sum of the n entries of a sequence of integers that end at position hi
RECURSIVE SumBack(_, _, _)
SumBack(s, hi, n) ==
    IF n = 0 \/ hi = 0 THEN 0 ELSE s[hi] + SumBack(s, hi - 1, n - 1)

Min(a, b) == IF a < b THEN a ELSE b

\* the float v is the ratio n / d
IsRatio(v, n, d) == ~IsNaN(v) /\ v[1] * d = n * v[2]

\* the rollup cells a returned row holds for one of its two teams
Emitted(r, role) ==
    IF role = "home"
    THEN [ last_5_games_result   |-> r.cols.home_team_last_5_games_result,
           streak                |-> r.cols.home_team_streak,
           win_pct               |-> r.cols.home_team_win_pct,
           avg_point_diff        |-> r.cols.home_team_avg_point_diff,
           avg_point_diff_last_5 |-> r.cols.home_team_avg_point_diff_last_5 ]
    ELSE [ last_5_games_result   |-> r.cols.away_team_last_5_games_result,
           streak                |-> r.cols.away_team_streak,
           win_pct               |-> r.cols.away_team_win_pct,
           avg_point_diff        |-> r.cols.away_team_avg_point_diff,
           avg_point_diff_last_5 |-> r.cols.away_team_avg_point_diff_last_5 ]

\* the returned row of the game with label g
RowOf(res, g) == res[CHOOSE k \in 1..Len(res) : res[k].label = g]

\* the rollup cells the returned table holds for the team at game g
CellsAt(res, t, g, team) == Emitted(RowOf(res, g), RoleOf(t[g], team))

RolledUp == pc = "rollup"

---------------------------------------------------------------------------
(* C2: the streak entering a game.                                         *)

\* the transition the claim states
StreakStep(S, p) ==
    IF S = 0 THEN p
    ELSE IF (S > 0) = (p > 0) THEN S + p
    ELSE p

\* the state after the first n of the outcomes
RECURSIVE StreakFold(_, _)
StreakFold(outcomes, n) ==
    IF n = 0 THEN 0
    ELSE StreakStep(StreakFold(outcomes, n - 1), outcomes[n])

\* length of the run of equal entries that ends at position n
RECURSIVE RunLength(_, _)
RunLength(s, n) ==
    IF n = 0 THEN 0
    ELSE IF n = 1 \/ s[n - 1] # s[n] THEN 1
    ELSE 1 + RunLength(s, n - 1)

SignedRun(s, n) == IF n = 0 THEN 0 ELSE s[n] * RunLength(s, n)

\* C2: for every season and team, the streak emitted for the team's i-th
\* game is the state before the game (0 at the start, then p when the state
\* is 0 or of the other sign and state + p when of the same sign), which is
\* the signed length of the run of equal results just before the game; three
\* wins and a loss give 0, 1, 2, 3 and then -1 for the game after the loss.
C2_StreakEnteringGame ==
    RolledUp =>
        \A season \in SeasonsOf(df) : \A team \in Teams :
            LET ch == Chronicle(df, season, team)
                o  == Outcomes(df, ch, team)
                st(i) == CellsAt(result, df, ch[i], team).streak
            IN  /\ \A i \in 1..Len(ch) :
                     /\ st(i) = Num(StreakFold(o, i - 1))
                     /\ st(i) = Num(SignedRun(o, i - 1))
                /\ (Len(ch) >= 5 /\ SubSeq(o, 1, 4) = <<1, 1, 1, -1>>)
                     => <<st(1), st(2), st(3), st(4), st(5)>>
                          = <<Num(0), Num(1), Num(2), Num(3), Num(-1)>>

\* a team enters its fifth game after three wins and a loss with streak -1,
\* and a team enters a game on a run of three losses
C2_Witness ==
    /\ RolledUp
    /\ \E team \in Teams :
         LET ch == Chronicle(df, 1, team)
         IN  /\ Len(ch) >= 5
             /\ SubSeq(Outcomes(df, ch, team), 1, 4) = <<1, 1, 1, -1>>
             /\ CellsAt(result, df, ch[5], team).streak = Num(-1)
    /\ \E k \in 1..Len(result) : result[k].cols.home_team_streak = Num(-3)

---------------------------------------------------------------------------
(* C4: the two windows of five.                                            *)

\* C4: with k games before it in the season, a game's last_5_games_result is
\* the sum of the results of the min(k, 5) latest of them, while its
\* avg_point_diff_last_5 is 0 when k < 5 and the mean margin of exactly the
\* 5 latest when k >= 5.
C4_WindowAsymmetry ==
    RolledUp =>
        \A season \in SeasonsOf(df) : \A team \in Teams :
            LET ch == Chronicle(df, season, team)
                o  == Outcomes(df, ch, team)
                m  == Margins(df, ch, team)
            IN  \A i \in 1..Len(ch) :
                    LET e == CellsAt(result, df, ch[i], team)
                        k == i - 1
                    IN  /\ e.last_5_games_result = Num(SumBack(o, k, Min(k, 5)))
                        /\ k < 5  => e.avg_point_diff_last_5 = Num(0)
                        /\ k >= 5 => IsRatio(e.avg_point_diff_last_5,
                                             SumBack(m, k, 5), 5)

\* a game with fewer than 5 games before it has a partial sum that is not 0
\* beside an average of 0, and a game with more than 5 before it has a
\* window average that differs from the average over all of them
C4_Witness ==
    /\ RolledUp
    /\ \E team \in Teams :
         LET ch == Chronicle(df, 1, team)
         IN  /\ Len(ch) >= 7
             /\ CellsAt(result, df, ch[3], team).last_5_games_result = Num(2)
             /\ CellsAt(result, df, ch[3], team).avg_point_diff_last_5 = Num(0)
             /\ CellsAt(result, df, ch[7], team).last_5_games_result = Num(-3)
             /\ CellsAt(result, df, ch[7], team).avg_point_diff_last_5 # Num(0)
             /\ CellsAt(result, df, ch[7], team).avg_point_diff_last_5
                  # CellsAt(result, df, ch[7], team).avg_point_diff

---------------------------------------------------------------------------
(* C5: the running means.                                                  *)

\* how many of the first n entries of s are v
Count(s, n, v) == Cardinality({q \in 1..n : s[q] = v})

\* C5: with k >= 1 games before it in the season, a game's win_pct is
\* (wins - losses) / k over those games, within [-1, 1], and its
\* avg_point_diff is the sum of the team's own score minus the opponent's
\* over them, divided by k; with k = 0 win_pct is null and avg_point_diff 0.
C5_RunningMeans ==
    RolledUp =>
        \A season \in SeasonsOf(df) : \A team \in Teams :
            LET ch == Chronicle(df, season, team)
                o  == Outcomes(df, ch, team)
                m  == Margins(df, ch, team)
            IN  \A i \in 1..Len(ch) :
                    LET e == CellsAt(result, df, ch[i], team)
                        k == i - 1
                    IN  /\ k = 0 => IsNaN(e.win_pct) /\ e.avg_point_diff = Num(0)
                        /\ k >= 1 =>
                             /\ IsRatio(e.win_pct,
                                        Count(o, k, 1) - Count(o, k, -1), k)
                             /\ -e.win_pct[2] <= e.win_pct[1]
                             /\ e.win_pct[1] <= e.win_pct[2]
                             /\ IsRatio(e.avg_point_diff, SumBack(m, k, k), k)

\* the away team of a game has won 2 of its 3 earlier games, by 1 point at
\* home and by 2 away: win_pct 1/3, avg_point_diff 2/3
C5_Witness ==
    /\ RolledUp
    /\ Len(result) >= 4
    /\ IsNaN(result[1].cols.away_team_win_pct)
    /\ result[4].cols.away_team_win_pct = <<1, 3>>
    /\ result[4].cols.away_team_avg_point_diff = <<2, 3>>

---------------------------------------------------------------------------
(* C3: the reset at a season boundary.                                     *)

\* C3: for every team and season, at the team's first game of the season,
\* also when it played in an earlier season of the table, the entering
\* streak is 0, win_pct is null, and last_5_games_result, avg_point_diff and
\* avg_point_diff_last_5 are 0.
C3_SeasonReset ==
    RolledUp =>
        \A season \in SeasonsOf(df) : \A team \in Teams :
            LET ch == Chronicle(df, season, team)
            IN  Len(ch) >= 1 =>
                    LET e == CellsAt(result, df, ch[1], team)
                    IN  /\ e.streak = Num(0)
                        /\ IsNaN(e.win_pct)
                        /\ e.last_5_games_result = Num(0)
                        /\ e.avg_point_diff = Num(0)
                        /\ e.avg_point_diff_last_5 = Num(0)

\* a team that won twice in season 1 opens season 2 with blank cells
C3_Witness ==
    /\ RolledUp
    /\ \E team \in Teams :
         LET c1 == Chronicle(df, 1, team)
             c2 == Chronicle(df, 2, team)
         IN  /\ Len(c1) = 2 /\ Len(c2) = 1
             /\ Outcomes(df, c1, team) = <<1, 1>>
             /\ CellsAt(result, df, c1[2], team).streak = Num(1)
             /\ CellsAt(result, df, c2[1], team).streak = Num(0)
             /\ IsNaN(CellsAt(result, df, c2[1], team).win_pct)

---------------------------------------------------------------------------
(* C7: the write-back by role.                                             *)

\* the five cells of the team at game g, from the games it played before g
Expected(t, g, team) ==
    LET ch == Chronicle(t, t[g].season, team)
        o  == Outcomes(t, ch, team)
        m  == Margins(t, ch, team)
        k  == (CHOOSE i \in 1..Len(ch) : ch[i] = g) - 1
    IN  [ last_5_games_result   |-> Num(SumBack(o, k, Min(k, 5))),
          streak                |-> Num(SignedRun(o, k)),
          win_pct               |-> IF k = 0 THEN NaN
                                    ELSE Frac(SumBack(o, k, k), k),
          avg_point_diff        |-> IF k = 0 THEN Num(0)
                                    ELSE Frac(SumBack(m, k, k), k),
          avg_point_diff_last_5 |-> IF k < 5 THEN Num(0)
                                    ELSE Frac(SumBack(m, k, 5), 5) ]

\* the float v is a - b, null when either is null
IsDifference(v, a, b) ==
    IF IsNaN(a) \/ IsNaN(b)
    THEN IsNaN(v)
    ELSE /\ ~IsNaN(v)
         /\ v[1] * a[2] * b[2] = (a[1] * b[2] - b[1] * a[2]) * v[2]

\* C7: every row of the input comes back once, and holds in home_team_<m>
\* the value of the home team's own sequence at that game and in
\* away_team_<m> the value of the away team's own sequence at that game;
\* each hv column is home_team_<m> minus away_team_<m> of the same row.
C7_WriteBackByRole ==
    RolledUp =>
        /\ Len(result) = Len(df)
        /\ \A g \in Labels(df) : \E k \in 1..Len(result) : result[k].label = g
        /\ \A k \in 1..Len(result) :
             LET r == result[k]
                 h == Emitted(r, "home")
                 a == Emitted(r, "away")
             IN  /\ r.game = df[r.label]
                 /\ h = Expected(df, r.label, r.game.home_team)
                 /\ a = Expected(df, r.label, r.game.away_team)
                 /\ IsDifference(r.hv.last_5_hv, h.last_5_games_result,
                                 a.last_5_games_result)
                 /\ IsDifference(r.hv.streak_hv, h.streak, a.streak)
                 /\ IsDifference(r.hv.win_pct_hv, h.win_pct, a.win_pct)
                 /\ IsDifference(r.hv.point_diff_hv, h.avg_point_diff,
                                 a.avg_point_diff)
                 /\ IsDifference(r.hv.point_diff_last_5_hv,
                                 h.avg_point_diff_last_5,
                                 a.avg_point_diff_last_5)

\* the third game of a table of three teams: its home team lost its earlier
\* game away, its away team won its earlier game at home against the third
\* team, and the row holds -1 and 1 with a streak_hv of -2
C7_Witness ==
    /\ RolledUp
    /\ \E k \in 1..Len(result) :
         LET r == result[k]
         IN  /\ {df[i].home_team : i \in Labels(df)} = Teams
             /\ r.cols.home_team_streak = Num(-1)
             /\ r.cols.away_team_streak = Num(1)
             /\ r.cols.home_team_win_pct = Num(-1)
             /\ r.cols.away_team_avg_point_diff = Num(2)
             /\ r.hv.streak_hv = Num(-2)
             /\ r.label # k

---------------------------------------------------------------------------
(* C1: no lookahead.                                                       *)

\* the table with other scores in row j
Rescored(t, j, sc) ==
    [t EXCEPT ![j].home_score = sc[1], ![j].away_score = sc[2]]

\* the table without row j, and the label row g of the table has in it
Without(t, j) == [q \in 1..(Len(t) - 1) |-> IF q < j THEN t[q] ELSE t[q + 1]]

Relabel(j, g) == IF g < j THEN g ELSE g - 1

\* row j is one of the team's games of g's season before g
InPast(t, j, g, team) ==
    /\ t[j].season = t[g].season
    /\ Plays(t[j], team)
    /\ Before(t, j, g)

\* C1: the cells written for a team at a game are the same in any two tables
\* that agree on the team's games of that season before the game.  Two such
\* tables differ by a chain of changes of one row that is not among those
\* games, so the formula takes each row j in turn, gives it other scores or
\* drops it, runs the method on the changed table, and compares every cell
\* of every team and game that does not have row j in its past.
C1_NoLookahead ==
    RolledUp =>
        \A j \in Labels(df) :
            /\ \A sc \in RunScores :
                 LET t2   == Rescored(df, j, sc)
                     res2 == calculate_team_performance_metrics(t2)
                 IN  \A g \in Labels(df) : \A role \in Roles :
                        ~InPast(df, j, g, TeamOf(df[g], role))
                          => Emitted(RowOf(res2, g), role)
                               = Emitted(RowOf(result, g), role)
            /\ LET t2   == Without(df, j)
                   res2 == calculate_team_performance_metrics(t2)
               IN  \A g \in Labels(df) \ {j} : \A role \in Roles :
                      ~InPast(df, j, g, TeamOf(df[g], role))
                        => Emitted(RowOf(res2, Relabel(j, g)), role)
                             = Emitted(RowOf(result, g), role)

\* a team with three games in a season: other scores in the first change the
\* cells of the second, and other scores in the second or third do not
C1_Witness ==
    /\ RolledUp
    /\ \E team \in Teams : \E season \in SeasonsOf(df) :
         LET ch == Chronicle(df, season, team)
         IN  /\ Len(ch) = 3
             /\ \E sc \in RunScores :
                  CellsAt(calculate_team_performance_metrics(
                              Rescored(df, ch[1], sc)), df, ch[2], team)
                    # CellsAt(result, df, ch[2], team)
             /\ \A sc \in RunScores : \A q \in 2..3 :
                  CellsAt(calculate_team_performance_metrics(
                              Rescored(df, ch[q], sc)), df, ch[2], team)
                    = CellsAt(result, df, ch[2], team)

---------------------------------------------------------------------------
(* C6 and C10: the rest days.                                              *)

Rested == pc = "rest"

\* the rest days of the team at game g: null at its first appearance of the
\* season, else the whole days since its appearance just before
ExpectedRest(t, g, team) ==
    LET ch == Chronicle(t, t[g].season, team)
        i  == CHOOSE q \in 1..Len(ch) : ch[q] = g
    IN  IF i = 1 THEN NaN
        ELSE LET d == t[g].game_datetime - t[ch[i - 1]].game_datetime
             IN  Num(CHOOSE n \in 0..d :
                        n * UnitsPerDay <= d /\ d < (n + 1) * UnitsPerDay)

\* C6: for every game, days_since_last_game_home (and _away) is null when the
\* game is the home (away) team's first appearance of the season in either
\* role, and else the whole days between the game and the team's appearance
\* just before it in the season; rest_diff_hv is null when either is null
\* and else home minus away.
C6_RestDays ==
    Rested =>
        \A k \in 1..Len(result) :
            LET r == result[k]
                g == df[r.game]
            IN  /\ r.days_since_last_game_home
                     = ExpectedRest(df, r.game, g.home_team)
                /\ r.days_since_last_game_away
                     = ExpectedRest(df, r.game, g.away_team)
                /\ IsDifference(r.rest_diff_hv, r.days_since_last_game_home,
                                r.days_since_last_game_away)

\* no team appears twice at one instant of a season
NoTeamTwiceAtOnce(t) ==
    \A i, j \in Labels(t) :
        (i # j /\ t[i].game_datetime = t[j].game_datetime
               /\ t[i].season = t[j].season)
          => {t[i].home_team, t[i].away_team}
               \cap {t[j].home_team, t[j].away_team} = {}

\* C6 on the tables in which no team appears twice at one instant
C6_RestDaysOfDistinctInstants ==
    NoTeamTwiceAtOnce(df) => C6_RestDays

\* C10: the method returns one row per row of its input, also when a team
\* appears in two games of one game_datetime of a season.
C10_OneRowPerGame ==
    Rested =>
        /\ Len(result) = Len(df)
        /\ \A g \in Labels(df) :
             Cardinality({k \in 1..Len(result) : result[k].game = g}) = 1

C10_OneRowPerGameOfDistinctInstants ==
    NoTeamTwiceAtOnce(df) => C10_OneRowPerGame

---------------------------------------------------------------------------
(* C8: the z-score and the percentile of a group without variance.         *)

Normalized == pc = "zscore"

\* the rows of a date
Partition(t, date) == {i \in Labels(t) : t[i].date = date}

\* the values of the rows of a date that are not null
ValuesOn(t, date) ==
    {t[i].value : i \in {j \in Partition(t, date) : ~IsNaN(t[j].value)}}

---------------------------------------------------------------------------
(* C9: the 538 probability.                                                *)

Condensed == pc = "condense"

\* C9: for every row, 538_prob1 is the first value that is not null among
\* raptor_prob1, carm_elo_prob1 and elo_prob1 in this order, null only when
\* the three are, whatever the other rows hold; raptor null, 0.62 and 0.55
\* give 0.62.
C9_FirstNonNullProbability ==
    Condensed =>
        /\ Len(result) = Len(df)
        /\ \A i \in Labels(df) :
             LET order == <<df[i].raptor_prob1, df[i].carm_elo_prob1,
                            df[i].elo_prob1>>
                 given == {q \in 1..3 : ~IsNaN(order[q])}
             IN  /\ given = {} => IsNaN(result[i].prob1)
                 /\ given # {} =>
                      result[i].prob1
                        = order[CHOOSE q \in given : \A q2 \in given : q <= q2]
                 /\ order = <<NaN, Frac(62, 100), Frac(55, 100)>>
                      => result[i].prob1 = Frac(62, 100)

\* a row of null, 0.62, 0.55 gives 0.62 beside a row that gives its raptor
\* value 0.70
C9_Witness ==
    /\ Condensed
    /\ \E i, j \in Labels(df) :
         /\ df[i] = [ raptor_prob1 |-> NaN, carm_elo_prob1 |-> Frac(62, 100),
                      elo_prob1 |-> Frac(55, 100) ]
         /\ result[i].prob1 = Frac(62, 100)
         /\ ~IsNaN(df[j].raptor_prob1)
         /\ ~IsNaN(df[j].carm_elo_prob1)
         /\ result[j].prob1 = Frac(70, 100)
         /\ result[j].prob1 # df[j].carm_elo_prob1

=============================================================================
